---- MODULE Spec2Model ----
(***************************************************************************)
(* State-machine model of the morse-code character driver                  *)
(* (src/morsecode.c): my_write flashes the letters of a user buffer on the *)
(* LED trigger and queues the dots and dashes it flashed in a kfifo,       *)
(* my_read drains that kfifo.  One step of the model is one step of a      *)
(* calling thread between two points where it touches the shared state     *)
(* (the mutex, the kfifo, the LED) or sleeps.                              *)
(*                                                                         *)
(* Characters are their ASCII codes.  The user buffers handed to my_write  *)
(* and my_read by the kernel are byte sequences / byte counts; a byte of   *)
(* my_write's source buffer may be unreadable (copy_from_user fails), the  *)
(* destination of my_read may fault (kfifo_to_user fails).                 *)
(* The file position *ppos is only accumulated, never read, and is left    *)
(* out.                                                                    *)
(***************************************************************************)
EXTENDS Integers, Sequences, FiniteSets, TLC

(***************************************************************************)
(* Program constants                                                       *)
(***************************************************************************)
INTER_WORD_DOTTIMES == 7
INTER_LETTER_DOTTIMES == 3
BITS_IN_A_BYTE == 8
ONES_IN_A_DOT == 1
ONES_IN_A_DASH == 3
DOT_SYMBOL == 46
DASH_SYMBOL == 45
SEPARATOR_SYMBOL == 32
NEWLINE == 10
QUEUE_SIZE == 32768
EFAULT == 14
LED_OFF == 0
LED_FULL == 255
SIZEOF_SHORT == 2
MIN_DOT_TIME == 1
MAX_DOT_TIME == 2000
DEFAULT_DOT_TIME == 200

(***************************************************************************)
(* Bounds of the model                                                     *)
(***************************************************************************)
\* the most entries the fifo lacks to be full when an environment that
\* begins with a filled fifo begins
MaxRoom == 2
\* reads the single caller makes before and after its write
MaxReads == 2
\* a read's count that exceeds everything a scenario can queue
BigCount == 40
\* how far beyond each end of the valid range the dottime parameters go
ParamSlack == 1
\* the bits, at either end of the pattern, that the patterns handed to
\* flash_morsecode on its own may have set
PatternBits == 8
\* the last place of a buffer at which its first unreadable byte may lie
MaxFaultAt == 2

Procs == {1, 2}

(***************************************************************************)
(* The table and the pure helpers                                          *)
(***************************************************************************)
letter_to_morsecode_bits_map ==
    << \hB800, \hEA80, \hEBA0, \hEA00, \h8000, \hAE80, \hEE80, \hAA00,
       \hA000, \hBBB8, \hEB80, \hBA80, \hEE00, \hE800, \hEEE0, \hBBA0,
       \hEEB8, \hBA00, \hA800, \hE000, \hAE00, \hAB80, \hBB80, \hEAE0,
       \hEBB8, \hEEA0 >>

\* 'a' = 97, 'z' = 122, 'A' = 65, 'Z' = 90
is_letter(c) == (97 <= c /\ c <= 122) \/ (65 <= c /\ c <= 90)

is_morsecode_char(c) == is_letter(c) \/ c = SEPARATOR_SYMBOL

\* letter_idx of process_morsecode, 0-based as in the source
letter_idx(c) == IF 97 <= c /\ c <= 122 THEN c - 97 ELSE c - 65

\* letter_to_morsecode_bits_map[letter_idx]
morsecode_bits(c) == letter_to_morsecode_bits_map[letter_idx(c) + 1]

ShortWidth == SIZEOF_SHORT * BITS_IN_A_BYTE

\* morsecode >> (sizeof(unsigned short) * BITS_IN_A_BYTE - 1)
leftmost_bit(m) == m \div (2 ^ (ShortWidth - 1))

\* morsecode <<= 1 on an unsigned short
shift_left(m) == (m * 2) % (2 ^ ShortWidth)

\* variant: the comparison with ONES_IN_A_DASH is missing
is_valid_run_dot_only(n) == n = ONES_IN_A_DOT

\* variant: the two symbols are exchanged
run_symbol_swapped(n) == IF n = ONES_IN_A_DOT THEN DASH_SYMBOL ELSE DOT_SYMBOL

\* the symbol put_valid_morsecode_into_queue enqueues for a run
is_valid_run(n) == n = ONES_IN_A_DOT \/ n = ONES_IN_A_DASH
run_symbol(n) == IF n = ONES_IN_A_DOT THEN DOT_SYMBOL ELSE DASH_SYMBOL

\* variant: the fifo is not checked for being full
kfifo_put_unchecked(q, size, c) == Append(q, c)

\* variant: the entry goes to the head of the fifo
kfifo_put_front(q, size, c) == IF Len(q) < size THEN << c >> \o q ELSE q

\* kfifo_put: append unless the fifo is full
kfifo_put(q, size, c) == IF Len(q) < size THEN Append(q, c) ELSE q

Min(a, b) == IF a < b THEN a ELSE b

\* first loop of my_write: index (0-based) of the first letter at or after i,
\* count if there is none
RECURSIVE skip_to_letter(_, _)
skip_to_letter(buf, i) ==
    IF i >= Len(buf) THEN Len(buf)
    ELSE IF buf[i + 1] # SEPARATOR_SYMBOL /\ is_letter(buf[i + 1]) THEN i
    ELSE skip_to_letter(buf, i + 1)


(***************************************************************************)
(* Environments.  "single": one thread makes one write call into the empty *)
(* fifo and reads before and after it.  "race": two threads call read and  *)
(* write concurrently.  "drain": as "race", but the second thread makes    *)
(* two calls in a row.  "twice": one thread makes two write calls and a    *)
(* read, in any order; the trigger may have failed to register.  "full":   *)
(* one thread writes and reads on a fifo that earlier writes of "e", never *)
(* read, have filled up to at most MaxRoom entries below its capacity.     *)
(* "load": the module is loaded with a dottime parameter inside or outside *)
(* the valid range, one thread writes and reads as soon as the device is   *)
(* registered, the module is removed.  Every other environment begins when *)
(* my_init has returned 0 for a module loaded without the parameter, and   *)
(* ends before my_exit.  "flash": one thread enters flash_morsecode         *)
(* directly, with a pattern that need not be in the table.  "poke": one    *)
(* thread writes and reads while another thread of the same caller         *)
(* overwrites one byte of the buffer my_write is reading; in every other   *)
(* environment the buffer stays as it was handed over.                     *)
(***************************************************************************)
Letters == (65 .. 90) \cup (97 .. 122)

\* "SOS", "hi there", "e t", "et", " a1 B ", "", " ", "1 ", "a1b", " a  !b "
Texts ==
    { << 83, 79, 83 >>,
      << 104, 105, 32, 116, 104, 101, 114, 101 >>,
      << 101, 32, 116 >>,
      << 101, 116 >>,
      << 32, 97, 49, 32, 32, 66, 32 >>,
      << >>,
      << 32 >>,
      << 49, 32 >>,
      << 97, 49, 98 >>,
      << 32, 97, 32, 32, 33, 98, 32 >> }

\* "e t", " e1t ", ""
RaceTexts ==
    { << 101, 32, 116 >>,
      << 32, 101, 49, 116, 32 >>,
      << >> }

\* "a": a letter of two symbols, one of them a dash
DashTexts == { << 97 >> }

\* "e t", "e1"
DrainTexts == { << 101, 32, 116 >>, << 101, 49 >> }

\* "e t"
PokeTexts == { << 101, 32, 116 >> }

\* ' ' and '1': what another thread of the caller writes into the buffer
PokeBytes == { SEPARATOR_SYMBOL, 49 }

\* "e1 t"
LoadTexts == { << 101, 49, 32, 116 >> }

\* "a1b", "ab", "Ab", " a  !b ", "a b", ""
TwiceTexts ==
    { << 97, 49, 98 >>,
      << 97, 98 >>,
      << 65, 98 >>,
      << 32, 97, 32, 32, 33, 98, 32 >>,
      << 97, 32, 98 >>,
      << >> }

Inputs(scn) == IF scn = "single" THEN { << c >> : c \in Letters } \cup Texts
               ELSE IF scn = "twice" THEN TwiceTexts
               ELSE IF scn = "load" THEN LoadTexts
               ELSE IF scn = "poke" THEN PokeTexts
               ELSE IF scn = "race" THEN RaceTexts \cup DashTexts
               ELSE IF scn = "drain" THEN DrainTexts
               ELSE RaceTexts

\* the patterns handed to flash_morsecode on its own: those with bits only in
\* the PatternBits leftmost places, those with bits only in the PatternBits
\* rightmost places, the pattern of all ones
Patterns ==
    { h * (2 ^ (ShortWidth - PatternBits)) : h \in 0 .. (2 ^ PatternBits - 1) }
        \cup (0 .. (2 ^ PatternBits - 1))
        \cup { 2 ^ ShortWidth - 1 }

\* where the first unreadable byte of the buffer b handed to my_write may
\* lie (0-based); Len(b): every byte is readable
Unreadable(b) == { i \in 0 .. MaxFaultAt : i < Len(b) } \cup { Len(b) }

\* the values the dottime parameter is given when the module is loaded
ParamValues ==
    ((MIN_DOT_TIME - ParamSlack - 1) .. (MIN_DOT_TIME + ParamSlack))
        \cup ((MAX_DOT_TIME - ParamSlack) .. (MAX_DOT_TIME + ParamSlack + 1))
        \cup { DEFAULT_DOT_TIME }

Counts(scn) == IF scn = "single" THEN {0, 1, 2, 5, BigCount}
               ELSE IF scn = "twice" THEN {1, BigCount}
               ELSE IF scn \in { "load", "poke" } THEN {BigCount}
               ELSE {0, 1, BigCount}

(***************************************************************************)
(* State                                                                   *)
(***************************************************************************)
VARIABLES
    scenario,                   \* the environment, fixed by Init
    configured,                 \* the dottime parameter as given at load time
    dottime,                    \* dottime
    loaded,                     \* the misc device is registered: my_read and
                                \* my_write can be called
    trigger,                    \* led_trigger: "none" (NULL), "registered",
                                \* or "freed" (the address of a trigger that
                                \* my_exit has unregistered and freed)
    init_pc,                    \* where the module stands between my_init and
                                \* my_exit
    queue,                      \* flashed_codes_queue, oldest entry first
    owners,                     \* for each entry of the queue the thread that
                                \* put it, 0 for the newline of a read and for
                                \* what calls before the environment put
    drained,                    \* the entries kfifo_to_user has taken out so
                                \* far, each with the thread that had put it
    queue_mutex,                \* 0 when free, else the thread that holds it
    led,                        \* brightness last sent to led_trigger
    pc,                         \* where each thread stands
    budget,                     \* calls each thread may still start: w writes,
                                \* r reads, n calls in all
    buff_idx,                   \* my_write: buff_idx
    ch,                         \* my_write / process_morsecode: ch
    has_processed_first_char,   \* my_write: has_processed_first_char
    morsecode,                  \* flash_morsecode: morsecode
    consecutive_ones_seen,      \* flash_morsecode: consecutive_ones_seen
    rc,                         \* value returned by the callee just left
    call,                       \* arguments and observed effects of each
                                \* thread's current (or last finished) call
    prev                        \* the same for the call before it

cfg == << scenario, configured, dottime, loaded, trigger, init_pc >>
fifo == << queue, owners, drained >>
shared == << fifo, queue_mutex, led >>
locals == << buff_idx, ch, has_processed_first_char, morsecode,
             consecutive_ones_seen, rc >>
vars == << scenario, configured, dottime, loaded, trigger, init_pc,
           queue, owners, drained, queue_mutex, led, pc,
           budget, buff_idx, ch,
           has_processed_first_char, morsecode, consecutive_ones_seen, rc,
           call, prev >>

NoCall ==
    [ kind |-> "none", buf |-> << >>, count |-> 0, fault |-> FALSE,
      q0 |-> << >>, qin |-> << >>, out |-> << >>, ret |-> 0,
      put |-> << >>, dropped |-> 0, pulses |-> 0, waited |-> 0,
      failed |-> FALSE, level |-> LED_OFF, wave |-> << >>, ms |-> 0,
      pattern |-> 0, intr |-> "", bad |-> 0, poked |-> FALSE ]

\* the module has been loaded without the dottime parameter and my_init has
\* returned 0, led_trigger_register_simple having left led_trigger as trig
LoadedWith(trig) ==
    /\ configured = DEFAULT_DOT_TIME
    /\ dottime = DEFAULT_DOT_TIME
    /\ loaded = TRUE
    /\ trigger = trig
    /\ init_pc = "live"

\* the same, the trigger registered
Loaded == LoadedWith("registered")

\* no call has been made
InitCalls ==
    /\ drained = << >>
    /\ queue_mutex = 0
    /\ led = LED_OFF
    /\ pc = [ t \in Procs |-> "idle" ]
    /\ buff_idx = [ t \in Procs |-> 0 ]
    /\ ch = [ t \in Procs |-> 0 ]
    /\ has_processed_first_char = [ t \in Procs |-> FALSE ]
    /\ morsecode = [ t \in Procs |-> 0 ]
    /\ consecutive_ones_seen = [ t \in Procs |-> 0 ]
    /\ rc = [ t \in Procs |-> 0 ]
    /\ call = [ t \in Procs |-> NoCall ]
    /\ prev = [ t \in Procs |-> NoCall ]

\* the fifo is as INIT_KFIFO left it (line 305)
InitCommon ==
    /\ queue = << >>
    /\ owners = << >>
    /\ InitCalls

\* the dots that n writes of "e" put into the fifo
Backlog(n) == [ i \in 1 .. n |-> DOT_SYMBOL ]

\* one caller that writes and reads; earlier writes of "e", which nobody has
\* read, have left the fifo full or nearly so
InitFull ==
    /\ scenario = "full"
    /\ Loaded
    /\ \E k \in 0 .. MaxRoom :
          /\ queue = Backlog(QUEUE_SIZE - k)
          /\ owners = [ i \in 1 .. (QUEUE_SIZE - k) |-> 0 ]
    /\ budget = [ t \in Procs |-> IF t = 1 THEN [ w |-> 1, r |-> 1, n |-> 2 ]
                                           ELSE [ w |-> 0, r |-> 0, n |-> 0 ] ]
    /\ InitCalls

\* concurrent callers
Init ==
    /\ scenario = "race"
    /\ Loaded
    /\ budget = [ t \in Procs |-> [ w |-> 1, r |-> 1, n |-> 1 ] ]
    /\ InitCommon

\* a writer and a caller that may read twice
InitDrain ==
    /\ scenario = "drain"
    /\ Loaded
    /\ budget = [ t \in Procs |-> IF t = 1 THEN [ w |-> 1, r |-> 1, n |-> 1 ]
                                           ELSE [ w |-> 1, r |-> 2, n |-> 2 ] ]
    /\ InitCommon

\* one caller that writes twice; the trigger is registered or not
InitTwice ==
    /\ scenario = "twice"
    /\ \E trig \in { "registered", "none" } : LoadedWith(trig)
    /\ budget = [ t \in Procs |-> IF t = 1 THEN [ w |-> 2, r |-> 1, n |-> 3 ]
                                           ELSE [ w |-> 0, r |-> 0, n |-> 0 ] ]
    /\ InitCommon

\* the module is loaded with any dottime parameter; one caller writes and
\* reads
InitLoad ==
    /\ scenario = "load"
    /\ configured \in ParamValues
    /\ dottime = configured
    /\ loaded = FALSE
    /\ trigger = "none"
    /\ init_pc = "start"
    /\ budget = [ t \in Procs |-> IF t = 1 THEN [ w |-> 1, r |-> 1, n |-> 2 ]
                                           ELSE [ w |-> 0, r |-> 0, n |-> 0 ] ]
    /\ InitCommon

\* variant: the comparison with MIN_DOT_TIME is missing
valid_dottime_no_min(d) == IF d > MAX_DOT_TIME THEN DEFAULT_DOT_TIME ELSE d

\* lines 308-309: a dottime outside the valid range becomes the default
valid_dottime(d) ==
    IF d < MIN_DOT_TIME \/ d > MAX_DOT_TIME THEN DEFAULT_DOT_TIME ELSE d

\* my_init up to misc_register (lines 304-317): the fifo is made empty,
\* dottime is validated, and misc_register either registers the device, from
\* when on my_read and my_write can be called, or fails
MyInit ==
    /\ init_pc = "start"
    /\ queue' = << >>
    /\ owners' = << >>
    /\ dottime' = valid_dottime(dottime)
    /\ \/ loaded' = TRUE /\ init_pc' = "registered"
       \/ loaded' = FALSE /\ init_pc' = "refused"
    /\ UNCHANGED << scenario, configured, trigger, drained, queue_mutex,
                    led, pc, budget, locals, call, prev >>

\* led_trigger_register_simple and the return of my_init (lines 319-320):
\* the registration is attempted whatever misc_register returned; it leaves
\* led_trigger NULL when it fails and reports nothing; my_init returns what
\* misc_register returned
MyInitTrigger ==
    /\ init_pc \in { "registered", "refused" }
    /\ trigger' \in { "registered", "none" }
    /\ init_pc' = IF init_pc = "registered" THEN "live" ELSE "failed"
    /\ UNCHANGED << scenario, configured, dottime, loaded, fifo,
                    queue_mutex, led, pc, budget, locals, call, prev >>

\* my_exit, line 327: led_trigger_unregister_simple unregisters and frees
\* the trigger, if there is one, and the LED goes dark with it; led_trigger
\* keeps the address.  my_exit itself tests nothing: it is the kernel that,
\* my_fops.owner being THIS_MODULE (line 285), puts off an unforced unload
\* while the device is open; a forced one finds the calls where they are.
MyExitTrigger ==
    /\ init_pc = "live"
    /\ trigger' = IF trigger = "registered" THEN "freed" ELSE trigger
    /\ led' = IF trigger = "registered" THEN LED_OFF ELSE led
    /\ init_pc' = "exiting"
    /\ UNCHANGED << scenario, configured, dottime, loaded, fifo, queue_mutex, pc,
                    budget, locals, call, prev >>

\* my_exit, line 329: misc_deregister; no call can be started any more
MyExitDevice ==
    /\ init_pc = "exiting"
    /\ loaded' = FALSE
    /\ init_pc' = "exited"
    /\ UNCHANGED << scenario, configured, dottime, trigger, fifo, queue_mutex, led,
                    pc, budget, locals, call, prev >>

\* one caller that writes and reads; the
\* buffer it hands to my_write is shared with another of its threads
InitPoke ==
    /\ scenario = "poke"
    /\ Loaded
    /\ budget = [ t \in Procs |-> IF t = 1 THEN [ w |-> 1, r |-> 1, n |-> 2 ]
                                           ELSE [ w |-> 0, r |-> 0, n |-> 0 ] ]
    /\ InitCommon

\* flash_morsecode on its own: one caller hands it one pattern
InitFlash ==
    /\ scenario = "flash"
    /\ Loaded
    /\ budget = [ t \in Procs |-> IF t = 1 THEN [ w |-> 0, r |-> 0, n |-> 1 ]
                                           ELSE [ w |-> 0, r |-> 0, n |-> 0 ] ]
    /\ InitCommon

\* one caller
InitSingle ==
    /\ scenario = "single"
    /\ Loaded
    /\ budget = [ t \in Procs |-> IF t = 1 THEN [ w |-> 1, r |-> MaxReads, n |-> MaxReads + 1 ]
                                           ELSE [ w |-> 0, r |-> 0, n |-> 0 ] ]
    /\ InitCommon


(***************************************************************************)
(* queue_lock / queue_unlock                                               *)
(***************************************************************************)
\* variant: the mutex is taken without regard to its holder
queue_lock_unchecked(t) == queue_mutex' = t

\* mutex_lock_interruptible returns 0: the caller now holds the mutex.  A
\* thread that finds the mutex taken sleeps (takes no step) until it is free.
queue_lock(t) == queue_mutex = 0 /\ queue_mutex' = t

\* mutex_lock_interruptible returns nonzero: a signal ended the attempt and
\* the mutex is left as it was.
queue_lock_interrupted(t) == queue_mutex' = queue_mutex

\* mutex_unlock
queue_unlock(t) == queue_mutex' = 0

(***************************************************************************)
(* Bookkeeping of a call's observed effects                                *)
(***************************************************************************)
\* the call's record after kfifo_put of the symbols syms on the queue q
Enqueued(c, q, syms) ==
    LET room == IF Len(q) < QUEUE_SIZE THEN QUEUE_SIZE - Len(q) ELSE 0
        kept == Min(room, Len(syms))
    IN  [ c EXCEPT !.put = c.put \o SubSeq(syms, 1, kept),
                   !.dropped = c.dropped + (Len(syms) - kept) ]

\* the call's record after led_trigger_event(my_trigger, b)
Sent(c, b) == [ c EXCEPT !.pulses = c.pulses + 1, !.level = b ]

\* the call's record after msleep(k * dottime): k more dot-times, that many
\* milliseconds each, have passed at the brightness the call last sent
Slept(c, k) ==
    [ c EXCEPT !.waited = c.waited + k,
               !.ms = c.ms + k * dottime,
               !.wave = c.wave \o [ i \in 1 .. k |-> c.level ] ]

\* the owners of the entries once thread t (0: a read's newline) has turned
\* the queue q into the queue r by kfifo_put
Stamped(o, q, r, t) == o \o [ i \in 1 .. (Len(r) - Len(q)) |-> t ]

\* led_trigger_event(led_trigger, b): the LED takes the brightness b; on a
\* NULL led_trigger nothing happens; on the address of a freed trigger the
\* call reads freed memory, and the LED takes the brightness or keeps its
\* own (or the thread dies: FlashOops)
led_trigger_event(b) ==
    led' \in IF trigger = "registered" THEN { b }
             ELSE IF trigger = "none" THEN { led }
             ELSE { led, b }

\* the locals are dead once a call has returned
ResetLocals(t) ==
    /\ buff_idx' = [ buff_idx EXCEPT ![t] = 0 ]
    /\ ch' = [ ch EXCEPT ![t] = 0 ]
    /\ has_processed_first_char' = [ has_processed_first_char EXCEPT ![t] = FALSE ]
    /\ morsecode' = [ morsecode EXCEPT ![t] = 0 ]
    /\ consecutive_ones_seen' = [ consecutive_ones_seen EXCEPT ![t] = 0 ]
    /\ rc' = [ rc EXCEPT ![t] = 0 ]

(***************************************************************************)
(* my_write                                                                *)
(***************************************************************************)
\* copy_from_user fails on one of the bytes from .. to of the buffer of the
\* call c
copy_faults(c, from, to) == from <= c.bad /\ c.bad <= to /\ c.bad < c.count

\* variant: my_write is not entered while another thread is inside it
WriteCall_exclusive(t) ==
    /\ loaded
    /\ pc[t] = "idle"
    /\ \A u \in Procs \ { t } : ~(call[u].kind = "write" /\ pc[u] # "idle")
    /\ budget[t].w > 0
    /\ budget[t].n > 0
    /\ \E b \in Inputs(scenario) : \E bad \in Unreadable(b) :
          call' = [ call EXCEPT ![t] =
                      [ NoCall EXCEPT !.kind = "write", !.buf = b, !.count = Len(b),
                                      !.bad = bad, !.q0 = queue ] ]
    /\ prev' = [ prev EXCEPT ![t] = call[t] ]
    /\ budget' = [ budget EXCEPT ![t].w = @ - 1, ![t].n = @ - 1 ]
    /\ has_processed_first_char' = [ has_processed_first_char EXCEPT ![t] = FALSE ]
    /\ pc' = [ pc EXCEPT ![t] = "w_trim" ]
    /\ UNCHANGED << cfg, shared, buff_idx, ch, morsecode, consecutive_ones_seen, rc >>

\* the kernel calls my_write(buff, count) (lines 227-232)
WriteCall(t) ==
    /\ loaded
    /\ pc[t] = "idle"
    /\ budget[t].w > 0
    /\ budget[t].n > 0
    /\ \E b \in Inputs(scenario) : \E bad \in Unreadable(b) :
          call' = [ call EXCEPT ![t] =
                      [ NoCall EXCEPT !.kind = "write", !.buf = b, !.count = Len(b),
                                      !.bad = bad, !.q0 = queue ] ]
    /\ prev' = [ prev EXCEPT ![t] = call[t] ]
    /\ budget' = [ budget EXCEPT ![t].w = @ - 1, ![t].n = @ - 1 ]
    /\ has_processed_first_char' = [ has_processed_first_char EXCEPT ![t] = FALSE ]
    /\ pc' = [ pc EXCEPT ![t] = "w_trim" ]
    /\ UNCHANGED << cfg, shared, buff_idx, ch, morsecode, consecutive_ones_seen, rc >>

\* lines 235-242 trim the leading spaces and invalid characters, fetching
\* each byte once, and return -EFAULT if one of them is not readable
WriteTrim(t) ==
    /\ pc[t] = "w_trim"
    /\ IF copy_faults(call[t], 0, skip_to_letter(call[t].buf, 0))
       THEN /\ call' = [ call EXCEPT ![t].ret = -EFAULT ]
            /\ pc' = [ pc EXCEPT ![t] = "idle" ]
            /\ ResetLocals(t)
       ELSE /\ buff_idx' = [ buff_idx EXCEPT ![t] = skip_to_letter(call[t].buf, 0) ]
            /\ pc' = [ pc EXCEPT ![t] = "w_loop" ]
            /\ UNCHANGED << ch, has_processed_first_char, morsecode,
                            consecutive_ones_seen, rc, call >>
    /\ UNCHANGED << cfg, shared, budget, prev >>

\* what the head of the while loop (lines 244-267) finds at buff_idx
AtEnd(t) == buff_idx[t] >= call[t].count
CurChar(t) == call[t].buf[buff_idx[t] + 1]
PeekIdx(t) == skip_to_letter(call[t].buf, buff_idx[t] + 1)
\* copy_from_user fails at the head of the loop (lines 245-247) or, behind a
\* space, in the peek-ahead loop (lines 253-257)
FetchFaults(t) ==
    /\ ~AtEnd(t)
    /\ \/ copy_faults(call[t], buff_idx[t], buff_idx[t])
       \/ /\ CurChar(t) = SEPARATOR_SYMBOL
          /\ copy_faults(call[t], buff_idx[t] + 1, PeekIdx(t))

TrailingSpaces(t) ==
    /\ ~AtEnd(t)
    /\ CurChar(t) = SEPARATOR_SYMBOL
    /\ PeekIdx(t) >= call[t].count
\* variant: the spaces that follow a space are not passed over
LastSpace_nopeek(t) == buff_idx[t]

\* buff_idx after line 266
LastSpace(t) == IF CurChar(t) = SEPARATOR_SYMBOL THEN PeekIdx(t) - 1 ELSE buff_idx[t]

\* variant: my_write returns the number of bytes its loop went through
WriteReturn_consumed(t) ==
    /\ pc[t] = "w_loop"
    /\ IF AtEnd(t) THEN TRUE ELSE ~FetchFaults(t) /\ TrailingSpaces(t)
    /\ call' = [ call EXCEPT ![t].ret = buff_idx[t] ]
    /\ pc' = [ pc EXCEPT ![t] = "idle" ]
    /\ ResetLocals(t)
    /\ UNCHANGED << cfg, shared, budget, prev >>

\* the loop ends (line 244 or the break of line 264): return count
WriteReturn(t) ==
    /\ pc[t] = "w_loop"
    /\ IF AtEnd(t) THEN TRUE ELSE ~FetchFaults(t) /\ TrailingSpaces(t)
    /\ call' = [ call EXCEPT ![t].ret = call[t].count ]
    /\ pc' = [ pc EXCEPT ![t] = "idle" ]
    /\ ResetLocals(t)
    /\ UNCHANGED << cfg, shared, budget, prev >>

\* a byte of the buffer is not readable: return -EFAULT (lines 246, 256)
WriteCopyFault(t) ==
    /\ pc[t] = "w_loop"
    /\ FetchFaults(t)
    /\ call' = [ call EXCEPT ![t].ret = -EFAULT ]
    /\ pc' = [ pc EXCEPT ![t] = "idle" ]
    /\ ResetLocals(t)
    /\ UNCHANGED << cfg, shared, budget, prev >>

\* another thread of the caller overwrites a byte of the buffer while
\* my_write, which fetches every byte more than once, is under way: before
\* the trim loop, or between two turns of the loop of line 244
Poke(t) ==
    /\ call[t].kind = "write"
    /\ pc[t] # "idle"
    /\ ~call[t].poked
    /\ \E i \in 1 .. Len(call[t].buf) : \E c \in PokeBytes :
          /\ c # call[t].buf[i]
          /\ call' = [ call EXCEPT ![t].buf[i] = c, ![t].poked = TRUE ]
    /\ UNCHANGED << cfg, shared, pc, budget, locals, prev >>

\* a character that is no morse-code character is passed over (268, 274)
WriteSkip(t) ==
    /\ pc[t] = "w_loop"
    /\ ~AtEnd(t)
    /\ ~FetchFaults(t)
    /\ ~TrailingSpaces(t)
    /\ ~is_morsecode_char(CurChar(t))
    /\ buff_idx' = [ buff_idx EXCEPT ![t] = LastSpace(t) + 1 ]
    /\ ch' = [ ch EXCEPT ![t] = CurChar(t) ]
    /\ UNCHANGED << cfg, shared, pc, budget, has_processed_first_char, morsecode,
                    consecutive_ones_seen, rc, call, prev >>

\* line 269 calls process_morsecode(ch, has_processed_first_char), which
\* branches on ch (lines 159-176, 185-186)
WriteProcess(t) ==
    /\ pc[t] = "w_loop"
    /\ ~AtEnd(t)
    /\ ~FetchFaults(t)
    /\ ~TrailingSpaces(t)
    /\ is_morsecode_char(CurChar(t))
    /\ buff_idx' = [ buff_idx EXCEPT ![t] = LastSpace(t) ]
    /\ ch' = [ ch EXCEPT ![t] = CurChar(t) ]
    /\ IF is_letter(CurChar(t))
       THEN IF has_processed_first_char[t]
            THEN /\ pc' = [ pc EXCEPT ![t] = "sep_lock" ]
                 /\ UNCHANGED << morsecode, consecutive_ones_seen >>
            ELSE /\ pc' = [ pc EXCEPT ![t] = "f_loop" ]
                 /\ morsecode' = [ morsecode EXCEPT ![t] = morsecode_bits(CurChar(t)) ]
                 /\ consecutive_ones_seen' = [ consecutive_ones_seen EXCEPT ![t] = 0 ]
       ELSE /\ pc' = [ pc EXCEPT ![t] = "word_lock" ]
            /\ UNCHANGED << morsecode, consecutive_ones_seen >>
    /\ UNCHANGED << cfg, shared, budget, has_processed_first_char, rc, call, prev >>

\* variant: my_write does not look at what process_morsecode returned
WriteAfterProcess_unchecked(t) ==
    /\ pc[t] = "w_ret"
    /\ has_processed_first_char' = [ has_processed_first_char EXCEPT ![t] = TRUE ]
    /\ buff_idx' = [ buff_idx EXCEPT ![t] = @ + 1 ]
    /\ pc' = [ pc EXCEPT ![t] = "w_loop" ]
    /\ UNCHANGED << cfg, shared, budget, ch, morsecode, consecutive_ones_seen, rc,
                    call, prev >>

\* back in my_write after process_morsecode returned rc (lines 269-274)
WriteAfterProcess(t) ==
    /\ pc[t] = "w_ret"
    /\ IF rc[t] # 0
       THEN /\ call' = [ call EXCEPT ![t].ret = -EFAULT ]
            /\ pc' = [ pc EXCEPT ![t] = "idle" ]
            /\ ResetLocals(t)
       ELSE /\ has_processed_first_char' = [ has_processed_first_char EXCEPT ![t] = TRUE ]
            /\ buff_idx' = [ buff_idx EXCEPT ![t] = @ + 1 ]
            /\ pc' = [ pc EXCEPT ![t] = "w_loop" ]
            /\ UNCHANGED << ch, morsecode, consecutive_ones_seen, rc, call >>
    /\ UNCHANGED << cfg, shared, budget, prev >>

(***************************************************************************)
(* process_morsecode                                                       *)
(***************************************************************************)
\* the interruptible lock of a separator (lines 164, 177) is interrupted:
\* process_morsecode returns -EFAULT
SeparatorLockInterrupted(t) ==
    /\ pc[t] \in { "word_lock", "sep_lock" }
    /\ queue_lock_interrupted(t)
    /\ rc' = [ rc EXCEPT ![t] = -EFAULT ]
    /\ call' = [ call EXCEPT ![t].failed = TRUE, ![t].intr = pc[t] ]
    /\ pc' = [ pc EXCEPT ![t] = "w_ret" ]
    /\ UNCHANGED << cfg, fifo, led, budget, buff_idx, ch, has_processed_first_char,
                    morsecode, consecutive_ones_seen, prev >>

\* ch == ' ': queue_lock succeeds (line 164)
WordLock(t) ==
    /\ pc[t] = "word_lock"
    /\ queue_lock(t)
    /\ pc' = [ pc EXCEPT ![t] = "word_put" ]
    /\ UNCHANGED << cfg, fifo, led, budget, locals, call, prev >>

\* variant: a space puts one separator only
WordPut_once(t) ==
    /\ pc[t] = "word_put"
    /\ queue' = kfifo_put(queue, QUEUE_SIZE, SEPARATOR_SYMBOL)
    /\ owners' = Stamped(owners, queue, queue', t)
    /\ call' = [ call EXCEPT ![t] = Enqueued(call[t], queue, << SEPARATOR_SYMBOL >>) ]
    /\ queue_unlock(t)
    /\ pc' = [ pc EXCEPT ![t] = "word_sleep" ]
    /\ UNCHANGED << cfg, drained, led, budget, locals, prev >>

\* two separators are put and the mutex is released (lines 167-169)
WordPut(t) ==
    /\ pc[t] = "word_put"
    /\ queue' = kfifo_put(kfifo_put(queue, QUEUE_SIZE, SEPARATOR_SYMBOL), QUEUE_SIZE,
                          SEPARATOR_SYMBOL)
    /\ owners' = Stamped(owners, queue, queue', t)
    /\ call' = [ call EXCEPT ![t] =
                   Enqueued(call[t], queue, << SEPARATOR_SYMBOL, SEPARATOR_SYMBOL >>) ]
    /\ queue_unlock(t)
    /\ pc' = [ pc EXCEPT ![t] = "word_sleep" ]
    /\ UNCHANGED << cfg, drained, led, budget, locals, prev >>

\* variant: a space waits the whole inter-word gap
WordSleep_full(t) ==
    /\ pc[t] = "word_sleep"
    /\ call' = [ call EXCEPT ![t] = Slept(call[t], INTER_WORD_DOTTIMES) ]
    /\ rc' = [ rc EXCEPT ![t] = 0 ]
    /\ pc' = [ pc EXCEPT ![t] = "w_ret" ]
    /\ UNCHANGED << cfg, shared, budget, buff_idx, ch, has_processed_first_char,
                    morsecode, consecutive_ones_seen, prev >>

\* msleep((INTER_WORD_DOTTIMES - INTER_LETTER_DOTTIMES) * dottime); return 0
WordSleep(t) ==
    /\ pc[t] = "word_sleep"
    /\ call' = [ call EXCEPT ![t] =
                   Slept(call[t], INTER_WORD_DOTTIMES - INTER_LETTER_DOTTIMES) ]
    /\ rc' = [ rc EXCEPT ![t] = 0 ]
    /\ pc' = [ pc EXCEPT ![t] = "w_ret" ]
    /\ UNCHANGED << cfg, shared, budget, buff_idx, ch, has_processed_first_char,
                    morsecode, consecutive_ones_seen, prev >>

\* a letter that is not the first: queue_lock succeeds (line 177)
SepLock(t) ==
    /\ pc[t] = "sep_lock"
    /\ queue_lock(t)
    /\ pc' = [ pc EXCEPT ![t] = "sep_put" ]
    /\ UNCHANGED << cfg, fifo, led, budget, locals, call, prev >>

\* one separator is put and the mutex is released (lines 180-181)
SepPut(t) ==
    /\ pc[t] = "sep_put"
    /\ queue' = kfifo_put(queue, QUEUE_SIZE, SEPARATOR_SYMBOL)
    /\ owners' = Stamped(owners, queue, queue', t)
    /\ call' = [ call EXCEPT ![t] = Enqueued(call[t], queue, << SEPARATOR_SYMBOL >>) ]
    /\ queue_unlock(t)
    /\ pc' = [ pc EXCEPT ![t] = "sep_sleep" ]
    /\ UNCHANGED << cfg, drained, led, budget, locals, prev >>

\* msleep((INTER_LETTER_DOTTIMES - 1) * dottime), then the table lookup and
\* the call of flash_morsecode (lines 182-186)
SepSleep(t) ==
    /\ pc[t] = "sep_sleep"
    /\ call' = [ call EXCEPT ![t] = Slept(call[t], INTER_LETTER_DOTTIMES - 1) ]
    /\ morsecode' = [ morsecode EXCEPT ![t] = morsecode_bits(ch[t]) ]
    /\ consecutive_ones_seen' = [ consecutive_ones_seen EXCEPT ![t] = 0 ]
    /\ pc' = [ pc EXCEPT ![t] = "f_loop" ]
    /\ UNCHANGED << cfg, shared, budget, buff_idx, ch, has_processed_first_char,
                    rc, prev >>


(***************************************************************************)
(* flash_morsecode and put_valid_morsecode_into_queue                      *)
(***************************************************************************)
\* leftmost bit 1: LED on, one more consecutive one (lines 129-135)
FlashOn(t) ==
    /\ pc[t] = "f_loop"
    /\ morsecode[t] # 0
    /\ leftmost_bit(morsecode[t]) = 1
    /\ led_trigger_event(LED_FULL)
    /\ consecutive_ones_seen' = [ consecutive_ones_seen EXCEPT ![t] = @ + 1 ]
    /\ call' = [ call EXCEPT ![t] = Sent(call[t], LED_FULL) ]
    /\ pc' = [ pc EXCEPT ![t] = "f_sleep" ]
    /\ UNCHANGED << cfg, fifo, queue_mutex, budget, buff_idx, ch,
                    has_processed_first_char, morsecode, rc, prev >>

\* leftmost bit 0 (line 137) or end of the loop (line 146): the run seen so
\* far goes to put_valid_morsecode_into_queue, which returns 0 at once for a
\* run that is neither a dot nor a dash (lines 110-111, 122)
FlashFlush(t) ==
    /\ pc[t] = "f_loop"
    /\ morsecode[t] = 0 \/ leftmost_bit(morsecode[t]) # 1
    /\ IF is_valid_run(consecutive_ones_seen[t])
       THEN /\ pc' = [ pc EXCEPT ![t] = "flush_lock" ]
            /\ UNCHANGED rc
       ELSE /\ pc' = [ pc EXCEPT ![t] = "f_ret" ]
            /\ rc' = [ rc EXCEPT ![t] = 0 ]
    /\ UNCHANGED << cfg, shared, budget, buff_idx, ch, has_processed_first_char,
                    morsecode, consecutive_ones_seen, call, prev >>

\* queue_lock of line 112 succeeds
FlushLock(t) ==
    /\ pc[t] = "flush_lock"
    /\ queue_lock(t)
    /\ pc' = [ pc EXCEPT ![t] = "flush_put" ]
    /\ UNCHANGED << cfg, fifo, led, budget, locals, call, prev >>

\* queue_lock of line 112 is interrupted: return -EFAULT (line 113)
FlushLockInterrupted(t) ==
    /\ pc[t] = "flush_lock"
    /\ queue_lock_interrupted(t)
    /\ rc' = [ rc EXCEPT ![t] = -EFAULT ]
    /\ call' = [ call EXCEPT ![t].failed = TRUE, ![t].intr = pc[t] ]
    /\ pc' = [ pc EXCEPT ![t] = "f_ret" ]
    /\ UNCHANGED << cfg, fifo, led, budget, buff_idx, ch, has_processed_first_char,
                    morsecode, consecutive_ones_seen, prev >>

\* the dot or dash is put and the mutex is released (lines 115-122)
FlushPut(t) ==
    /\ pc[t] = "flush_put"
    /\ queue' = kfifo_put(queue, QUEUE_SIZE, run_symbol(consecutive_ones_seen[t]))
    /\ owners' = Stamped(owners, queue, queue', t)
    /\ call' = [ call EXCEPT ![t] =
                   Enqueued(call[t], queue, << run_symbol(consecutive_ones_seen[t]) >>) ]
    /\ queue_unlock(t)
    /\ rc' = [ rc EXCEPT ![t] = 0 ]
    /\ pc' = [ pc EXCEPT ![t] = "f_ret" ]
    /\ UNCHANGED << cfg, drained, led, budget, buff_idx, ch,
                    has_processed_first_char, morsecode, consecutive_ones_seen, prev >>

\* flash_morsecode(p) is entered with a pattern of its caller's choice
FlashCall(t) ==
    /\ loaded
    /\ pc[t] = "idle"
    /\ budget[t].n > 0
    /\ \E p \in Patterns :
          /\ call' = [ call EXCEPT ![t] =
                         [ NoCall EXCEPT !.kind = "flash", !.pattern = p,
                                         !.q0 = queue ] ]
          /\ morsecode' = [ morsecode EXCEPT ![t] = p ]
    /\ consecutive_ones_seen' = [ consecutive_ones_seen EXCEPT ![t] = 0 ]
    /\ prev' = [ prev EXCEPT ![t] = call[t] ]
    /\ budget' = [ budget EXCEPT ![t].n = @ - 1 ]
    /\ pc' = [ pc EXCEPT ![t] = "f_loop" ]
    /\ UNCHANGED << cfg, shared, buff_idx, ch, has_processed_first_char, rc >>

\* flash_morsecode has returned rc to that caller
FlashReturn(t) ==
    /\ pc[t] = "w_ret"
    /\ call[t].kind = "flash"
    /\ call' = [ call EXCEPT ![t].ret = rc[t] ]
    /\ pc' = [ pc EXCEPT ![t] = "idle" ]
    /\ ResetLocals(t)
    /\ UNCHANGED << cfg, shared, budget, prev >>

\* variant: flash_morsecode does not look at what the flush returned
FlashAfterFlush_unchecked(t) ==
    /\ pc[t] = "f_ret"
    /\ led_trigger_event(LED_OFF)
    /\ call' = [ call EXCEPT ![t] = Sent(call[t], LED_OFF) ]
    /\ consecutive_ones_seen' =
          [ consecutive_ones_seen EXCEPT ![t] = IF morsecode[t] # 0 THEN 0 ELSE @ ]
    /\ pc' = [ pc EXCEPT ![t] = "f_sleep" ]
    /\ UNCHANGED << cfg, fifo, queue_mutex, budget, buff_idx, ch,
                    has_processed_first_char, morsecode, rc, prev >>

\* variant: the LED is not switched off after the last run
FlashAfterFlush_no_last_off(t) ==
    /\ pc[t] = "f_ret"
    /\ IF rc[t] # 0
       THEN /\ rc' = [ rc EXCEPT ![t] = -EFAULT ]
            /\ pc' = [ pc EXCEPT ![t] = "w_ret" ]
            /\ UNCHANGED << led, consecutive_ones_seen, call >>
       ELSE /\ IF morsecode[t] # 0
               THEN /\ led_trigger_event(LED_OFF)
                    /\ call' = [ call EXCEPT ![t] = Sent(call[t], LED_OFF) ]
                    /\ consecutive_ones_seen' =
                          [ consecutive_ones_seen EXCEPT ![t] = 0 ]
               ELSE UNCHANGED << led, consecutive_ones_seen, call >>
            /\ pc' = [ pc EXCEPT ![t] = "f_sleep" ]
            /\ UNCHANGED rc
    /\ UNCHANGED << cfg, fifo, queue_mutex, budget, buff_idx, ch,
                    has_processed_first_char, morsecode, prev >>

\* back in flash_morsecode: a failed flush returns -EFAULT through
\* process_morsecode (lines 138, 147, 187); otherwise LED off, and inside the
\* loop the run starts over (lines 140-141, 149)
FlashAfterFlush(t) ==
    /\ pc[t] = "f_ret"
    /\ IF rc[t] # 0
       THEN /\ rc' = [ rc EXCEPT ![t] = -EFAULT ]
            /\ pc' = [ pc EXCEPT ![t] = "w_ret" ]
            /\ UNCHANGED << led, consecutive_ones_seen, call >>
       ELSE /\ led_trigger_event(LED_OFF)
            /\ call' = [ call EXCEPT ![t] = Sent(call[t], LED_OFF) ]
            /\ consecutive_ones_seen' =
                  [ consecutive_ones_seen EXCEPT
                      ![t] = IF morsecode[t] # 0 THEN 0 ELSE @ ]
            /\ pc' = [ pc EXCEPT ![t] = "f_sleep" ]
            /\ UNCHANGED rc
    /\ UNCHANGED << cfg, fifo, queue_mutex, budget, buff_idx, ch,
                    has_processed_first_char, morsecode, prev >>

\* variant: no wait follows the last LED_OFF
FlashSleep_no_last(t) ==
    /\ pc[t] = "f_sleep"
    /\ IF morsecode[t] # 0
       THEN /\ call' = [ call EXCEPT ![t] = Slept(call[t], 1) ]
            /\ morsecode' = [ morsecode EXCEPT ![t] = shift_left(@) ]
            /\ pc' = [ pc EXCEPT ![t] = "f_loop" ]
            /\ UNCHANGED rc
       ELSE /\ rc' = [ rc EXCEPT ![t] = 0 ]
            /\ pc' = [ pc EXCEPT ![t] = "w_ret" ]
            /\ UNCHANGED << morsecode, call >>
    /\ UNCHANGED << cfg, shared, budget, buff_idx, ch, has_processed_first_char,
                    consecutive_ones_seen, prev >>

\* msleep(dottime): inside the loop the next bit follows (lines 143-144),
\* after it flash_morsecode and process_morsecode return 0 (150-151, 189)
FlashSleep(t) ==
    /\ pc[t] = "f_sleep"
    /\ call' = [ call EXCEPT ![t] = Slept(call[t], 1) ]
    /\ IF morsecode[t] # 0
       THEN /\ morsecode' = [ morsecode EXCEPT ![t] = shift_left(@) ]
            /\ pc' = [ pc EXCEPT ![t] = "f_loop" ]
            /\ UNCHANGED rc
       ELSE /\ rc' = [ rc EXCEPT ![t] = 0 ]
            /\ pc' = [ pc EXCEPT ![t] = "w_ret" ]
            /\ UNCHANGED morsecode
    /\ UNCHANGED << cfg, shared, budget, buff_idx, ch, has_processed_first_char,
                    consecutive_ones_seen, prev >>

\* led_trigger_event of line 134, 140 or 149 is handed the address of the
\* freed trigger and the thread dies in it: the call never returns
FlashOops(t) ==
    /\ trigger = "freed"
    /\ \/ pc[t] = "f_loop" /\ morsecode[t] # 0 /\ leftmost_bit(morsecode[t]) = 1
       \/ pc[t] = "f_ret" /\ rc[t] = 0
    /\ pc' = [ pc EXCEPT ![t] = "oops" ]
    /\ UNCHANGED << cfg, shared, budget, locals, call, prev >>

(***************************************************************************)
(* my_read                                                                 *)
(***************************************************************************)
\* the kernel calls my_read(buf, count); fault: the destination is not
\* writable
ReadCall(t) ==
    /\ loaded
    /\ pc[t] = "idle"
    /\ budget[t].r > 0
    /\ budget[t].n > 0
    /\ \E n \in Counts(scenario), f \in BOOLEAN :
          call' = [ call EXCEPT ![t] =
                      [ NoCall EXCEPT !.kind = "read", !.count = n, !.fault = f,
                                      !.q0 = queue ] ]
    /\ prev' = [ prev EXCEPT ![t] = call[t] ]
    /\ budget' = [ budget EXCEPT ![t].r = @ - 1, ![t].n = @ - 1 ]
    /\ pc' = [ pc EXCEPT ![t] = "r_lock" ]
    /\ UNCHANGED << cfg, shared, locals >>

\* queue_lock of line 211 succeeds
ReadLock(t) ==
    /\ pc[t] = "r_lock"
    /\ queue_lock(t)
    /\ pc' = [ pc EXCEPT ![t] = "r_drain" ]
    /\ UNCHANGED << cfg, fifo, led, budget, locals, call, prev >>

\* queue_lock of line 211 is interrupted: return -EFAULT (line 212)
ReadLockInterrupted(t) ==
    /\ pc[t] = "r_lock"
    /\ queue_lock_interrupted(t)
    /\ call' = [ call EXCEPT ![t].failed = TRUE, ![t].intr = pc[t],
                              ![t].ret = -EFAULT ]
    /\ pc' = [ pc EXCEPT ![t] = "idle" ]
    /\ UNCHANGED << cfg, fifo, led, budget, locals, prev >>

\* variant: the newline is put without the test for an empty fifo
with_newline_always(q, size) == kfifo_put(q, size, NEWLINE)

\* variant: one byte of the destination is held back
copy_len_short(q, n) == IF n = 0 THEN 0 ELSE Min(n - 1, Len(q))

\* the fifo after line 214-216: a newline is put unless the fifo is empty
with_newline(q, size) == IF q # << >> THEN kfifo_put(q, size, NEWLINE) ELSE q

\* kfifo_to_user hands over min(count, length) entries
copy_len(q, n) == Min(n, Len(q))

\* lines 214-224 under the mutex: newline, kfifo_to_user, unlock, return.
\* A faulting destination makes kfifo_to_user fail after k < copy_len entries
\* have left the fifo.
ReadDrain(t) ==
    /\ pc[t] = "r_drain"
    /\ LET q == with_newline(queue, QUEUE_SIZE)
           o == Stamped(owners, queue, q, 0)
           n == copy_len(q, call[t].count)
           nl == IF queue # << >> THEN << NEWLINE >> ELSE << >>
       IN  IF call[t].fault /\ n > 0
           THEN \E k \in 0 .. (n - 1) :
                   /\ queue' = SubSeq(q, k + 1, Len(q))
                   /\ owners' = SubSeq(o, k + 1, Len(o))
                   /\ drained' = drained \o [ i \in 1 .. k |-> << q[i], o[i] >> ]
                   /\ call' = [ call EXCEPT ![t] =
                                  [ Enqueued(call[t], queue, nl) EXCEPT
                                      !.qin = queue, !.out = SubSeq(q, 1, k),
                                      !.ret = -EFAULT ] ]
           ELSE /\ queue' = SubSeq(q, n + 1, Len(q))
                /\ owners' = SubSeq(o, n + 1, Len(o))
                /\ drained' = drained \o [ i \in 1 .. n |-> << q[i], o[i] >> ]
                /\ call' = [ call EXCEPT ![t] =
                               [ Enqueued(call[t], queue, nl) EXCEPT
                                   !.qin = queue, !.out = SubSeq(q, 1, n),
                                   !.ret = n ] ]
    /\ queue_unlock(t)
    /\ pc' = [ pc EXCEPT ![t] = "idle" ]
    /\ UNCHANGED << cfg, led, budget, locals, prev >>

(***************************************************************************)
(* Specifications                                                          *)
(***************************************************************************)
Next ==
    \E t \in Procs :
        \/ WriteCall(t)
        \/ WriteTrim(t)
        \/ WriteReturn(t)
        \/ WriteCopyFault(t)
        \/ WriteSkip(t)
        \/ WriteProcess(t)
        \/ WriteAfterProcess(t)
        \/ SeparatorLockInterrupted(t)
        \/ WordLock(t)
        \/ WordPut(t)
        \/ WordSleep(t)
        \/ SepLock(t)
        \/ SepPut(t)
        \/ SepSleep(t)
        \/ FlashOn(t)
        \/ FlashFlush(t)
        \/ FlushLock(t)
        \/ FlushLockInterrupted(t)
        \/ FlushPut(t)
        \/ FlashAfterFlush(t)
        \/ FlashSleep(t)
        \/ ReadCall(t)
        \/ ReadLock(t)
        \/ ReadLockInterrupted(t)
        \/ ReadDrain(t)

\* two threads
Spec == Init /\ [][Next]_vars

\* one thread
SpecSingle == InitSingle /\ [][Next]_vars

\* a writer beside a thread that may call twice
SpecDrain == InitDrain /\ [][Next]_vars

\* one thread that writes twice
SpecTwice == InitTwice /\ [][Next]_vars

\* the module from its load, with any dottime parameter, to its removal
NextLoad ==
    \/ MyInit
    \/ MyInitTrigger
    \/ MyExitTrigger
    \/ MyExitDevice
    \/ \E t \in Procs : FlashOops(t)
    \/ Next

SpecLoad == InitLoad /\ [][NextLoad]_vars

\* one thread on a fifo that is full or nearly so
SpecFull == InitFull /\ [][Next]_vars

\* a caller whose buffer changes under my_write
NextPoke == Next \/ \E t \in Procs : Poke(t)

SpecPoke == InitPoke /\ [][NextPoke]_vars

\* flash_morsecode and put_valid_morsecode_into_queue on their own
NextFlash ==
    \E t \in Procs :
        \/ FlashCall(t)
        \/ FlashOn(t)
        \/ FlashFlush(t)
        \/ FlushLock(t)
        \/ FlushLockInterrupted(t)
        \/ FlushPut(t)
        \/ FlashAfterFlush(t)
        \/ FlashSleep(t)
        \/ FlashReturn(t)

SpecFlash == InitFlash /\ [][NextFlash]_vars


(***************************************************************************)
(* The symbols one uninterrupted my_write puts, in order, computed by      *)
(* following the loops of my_write, process_morsecode and flash_morsecode  *)
(***************************************************************************)
flush_symbols(n) == IF is_valid_run(n) THEN << run_symbol(n) >> ELSE << >>

RECURSIVE flash_symbols(_, _)
flash_symbols(m, ones) ==
    IF m = 0 THEN flush_symbols(ones)
    ELSE IF leftmost_bit(m) = 1 THEN flash_symbols(shift_left(m), ones + 1)
    ELSE flush_symbols(ones) \o flash_symbols(shift_left(m), 0)

RECURSIVE write_symbols_from(_, _, _)
write_symbols_from(buf, i, processed) ==
    IF i >= Len(buf) THEN << >>
    ELSE LET c == buf[i + 1]
             peek == skip_to_letter(buf, i + 1)
         IN  IF c = SEPARATOR_SYMBOL
             THEN IF peek >= Len(buf) THEN << >>
                  ELSE << SEPARATOR_SYMBOL, SEPARATOR_SYMBOL >>
                          \o write_symbols_from(buf, peek, TRUE)
             ELSE IF is_letter(c)
             THEN (IF processed THEN << SEPARATOR_SYMBOL >> ELSE << >>)
                     \o flash_symbols(morsecode_bits(c), 0)
                     \o write_symbols_from(buf, i + 1, TRUE)
             ELSE write_symbols_from(buf, i + 1, processed)

write_symbols(buf) == write_symbols_from(buf, skip_to_letter(buf, 0), FALSE)

(***************************************************************************)
(* Reference data of the properties: International Morse code, A to Z      *)
(***************************************************************************)
InternationalMorse ==
    LET o == DOT_SYMBOL
        d == DASH_SYMBOL
    IN  << << o, d >>,        << d, o, o, o >>,  << d, o, d, o >>,  << d, o, o >>,
           << o >>,           << o, o, d, o >>,  << d, d, o >>,     << o, o, o, o >>,
           << o, o >>,        << o, d, d, d >>,  << d, o, d >>,     << o, d, o, o >>,
           << d, d >>,        << d, o >>,        << d, d, d >>,     << o, d, d, o >>,
           << d, d, o, d >>,  << o, d, o >>,     << o, o, o >>,     << d >>,
           << o, o, d >>,     << o, o, o, d >>,  << o, d, d >>,     << d, o, o, d >>,
           << d, o, d, d >>,  << d, d, o, o >> >>

\* the canonical dots and dashes of a letter of either case
Canonical(c) == InternationalMorse[(IF c >= 97 THEN c - 97 ELSE c - 65) + 1]

\* gap separators in a row
Spaces(gap) == [ i \in 1 .. gap |-> SEPARATOR_SYMBOL ]

\* letters and single spaces, no leading, trailing or doubled space
WellFormed(buf) ==
    /\ buf # << >>
    /\ \A i \in 1 .. Len(buf) : buf[i] \in Letters \/ buf[i] = SEPARATOR_SYMBOL
    /\ buf[1] # SEPARATOR_SYMBOL
    /\ buf[Len(buf)] # SEPARATOR_SYMBOL
    /\ \A i \in 1 .. (Len(buf) - 1) :
          ~(buf[i] = SEPARATOR_SYMBOL /\ buf[i + 1] = SEPARATOR_SYMBOL)

\* the stream with one separator between the letters of a word and gap
\* separators between words
RECURSIVE ExpectedFrom(_, _, _)
ExpectedFrom(buf, i, gap) ==
    IF i > Len(buf) THEN << >>
    ELSE IF buf[i] = SEPARATOR_SYMBOL THEN Spaces(gap) \o ExpectedFrom(buf, i + 1, gap)
    ELSE (IF i > 1 /\ buf[i - 1] # SEPARATOR_SYMBOL THEN Spaces(1) ELSE << >>)
            \o Canonical(buf[i]) \o ExpectedFrom(buf, i + 1, gap)

ExpectedStream(buf, gap) == ExpectedFrom(buf, 1, gap)

\* thread t has returned from a call of the kind k
Returned(t, k) == pc[t] = "idle" /\ call[t].kind = k

\* every byte of the buffer of the call c can be read
Readable(c) == c.bad = c.count

\* thread t has returned from a write whose buffer was readable, that met no
\* interrupted lock, nothing of which a full fifo refused, into a fifo that
\* was empty when it began
CleanWrite(t) ==
    /\ Returned(t, "write")
    /\ Readable(call[t])
    /\ ~call[t].failed
    /\ call[t].dropped = 0
    /\ call[t].q0 = << >>

SOS == << 83, 79, 83 >>
HiThere == << 104, 105, 32, 116, 104, 101, 114, 101 >>

(***************************************************************************)
(* C1: for every letter, of either case, the write of that letter alone    *)
(* into the empty fifo, uninterrupted, leaves in the fifo exactly the      *)
(* letter's International Morse dots and dashes, in order.                 *)
(***************************************************************************)
C1_LetterYieldsCanonicalMorse ==
    \A t \in Procs :
        (CleanWrite(t) /\ Len(call[t].buf) = 1 /\ call[t].buf[1] \in Letters)
            => /\ queue = Canonical(call[t].buf[1])
               /\ call[t].put = Canonical(call[t].buf[1])

\* "R" and "r" have left dot, dash, dot
C1_Witness ==
    \E t \in Procs :
        /\ CleanWrite(t)
        /\ call[t].buf \in { << 82 >>, << 114 >> }
        /\ queue = << DOT_SYMBOL, DASH_SYMBOL, DOT_SYMBOL >>

(***************************************************************************)
(* C2 as claimed: a well-formed input written into the empty fifo leaves   *)
(* one separator between the letters of a word and exactly two between     *)
(* two words.                                                              *)
(***************************************************************************)
C2_TwoSeparatorsBetweenWords ==
    \A t \in Procs :
        (CleanWrite(t) /\ WellFormed(call[t].buf))
            => queue = ExpectedStream(call[t].buf, 2)

(***************************************************************************)
(* C2 as amended: a well-formed input written into the empty fifo leaves   *)
(* one separator between the letters of a word and exactly three between   *)
(* two words: the two of the space and the one that precedes every letter  *)
(* but the first.                                                          *)
(***************************************************************************)
C2_ThreeSeparatorsBetweenWords ==
    \A t \in Procs :
        (CleanWrite(t) /\ WellFormed(call[t].buf))
            => queue = ExpectedStream(call[t].buf, 3)

\* "hi there": .... ..   - .... . .-. .
C2_Witness ==
    \E t \in Procs :
        /\ CleanWrite(t)
        /\ call[t].buf = HiThere
        /\ SubSeq(queue, 5, 12) =
              << SEPARATOR_SYMBOL, DOT_SYMBOL, DOT_SYMBOL, SEPARATOR_SYMBOL,
                 SEPARATOR_SYMBOL, SEPARATOR_SYMBOL, DASH_SYMBOL, SEPARATOR_SYMBOL >>
        /\ Len(queue) = 24

\* thread t has written "SOS" into the empty fifo and then read it out with a
\* count that takes everything
SOSReadBack(t) ==
    /\ Returned(t, "read")
    /\ call[t].ret >= 0
    /\ call[t].count > Len(call[t].qin)
    /\ prev[t].kind = "write"
    /\ prev[t].buf = SOS
    /\ Readable(prev[t])
    /\ ~prev[t].failed
    /\ prev[t].q0 = << >>

(***************************************************************************)
(* C3 as claimed: "SOS" written into the empty fifo reads back as          *)
(* ". . . - - - . . ." and the newline.                                    *)
(***************************************************************************)
C3_SOSEverySymbolSeparated ==
    \A t \in Procs :
        SOSReadBack(t)
            => call[t].out = << 46, 32, 46, 32, 46, 32, 45, 32, 45, 32, 45, 32,
                                46, 32, 46, 32, 46, 10 >>

(***************************************************************************)
(* C3 as amended: "SOS" written into the empty fifo reads back as          *)
(* "... --- ..." and the newline: the dots and dashes of one letter are    *)
(* adjacent, one separator stands between two letters.                     *)
(***************************************************************************)
C3_SOSLettersSeparated ==
    \A t \in Procs :
        SOSReadBack(t)
            => call[t].out = << 46, 46, 46, 32, 45, 45, 45, 32, 46, 46, 46, 10 >>

C3_Witness ==
    \E t \in Procs : SOSReadBack(t) /\ call[t].ret = 12


\* number of newlines in a byte sequence
Newlines(s) == Cardinality({ i \in DOMAIN s : s[i] = NEWLINE })

\* s is a proper prefix of u
ProperPrefix(s, u) == Len(s) < Len(u) /\ s = SubSeq(u, 1, Len(s))

\* s is a prefix of u
Prefix(s, u) == Len(s) <= Len(u) /\ s = SubSeq(u, 1, Len(s))

\* thread t has returned from a read that obtained the mutex and whose
\* destination took the bytes
GoodRead(t) == Returned(t, "read") /\ call[t].ret >= 0

\* the read before it asked for fewer bytes than were queued, this one for
\* more than are left
PartialThenRest(t) ==
    /\ GoodRead(t)
    /\ call[t].count > Len(call[t].qin)
    /\ prev[t].kind = "read"
    /\ prev[t].ret >= 0
    /\ prev[t].count > 0
    /\ prev[t].count < Len(prev[t].qin)

(***************************************************************************)
(* C4: a read whose count is smaller than the queued content returns       *)
(* exactly count bytes, the oldest, and the read that follows it returns   *)
(* the rest, so that the two reads return exactly one newline, as the      *)
(* last byte.                                                              *)
(***************************************************************************)
C4_PartialReadsShareOneNewline ==
    \A t \in Procs :
        PartialThenRest(t)
            => /\ prev[t].ret = prev[t].count
               /\ prev[t].out = SubSeq(prev[t].qin, 1, prev[t].count)
               /\ Newlines(prev[t].out \o call[t].out) = 1
               /\ call[t].out # << >>
               /\ call[t].out[Len(call[t].out)] = NEWLINE

(***************************************************************************)
(* C5: a read of a fifo that holds L symbols, L > 0 and below the          *)
(* capacity, with count > L returns L + 1 bytes, the L symbols oldest      *)
(* first and then one newline, and leaves the fifo empty.                  *)
(***************************************************************************)
C5_ReadReturnsAllThenNewline ==
    \A t \in Procs :
        ( /\ GoodRead(t)
          /\ call[t].qin # << >>
          /\ Len(call[t].qin) < QUEUE_SIZE
          /\ call[t].count >= Len(call[t].qin) + 1 )
            => /\ call[t].ret = Len(call[t].qin) + 1
               /\ call[t].out = Append(call[t].qin, NEWLINE)
               /\ queue = << >>

\* the symbols of "hi there" came back with their newline
C5_Witness ==
    \E t \in Procs :
        /\ GoodRead(t)
        /\ prev[t].kind = "write"
        /\ prev[t].buf = HiThere
        /\ Len(call[t].qin) = 24
        /\ call[t].ret = 25
        /\ queue = << >>

(***************************************************************************)
(* C6: a read that finds the fifo empty returns 0 at once, puts no         *)
(* newline and leaves the fifo empty; so does the read that follows a      *)
(* write of the empty input.                                               *)
(***************************************************************************)
C6_ReadOfEmptyReturnsZero ==
    \A t \in Procs :
        /\ (pc[t] = "r_drain" /\ queue = << >>) => ENABLED ReadDrain(t)
        /\ (Returned(t, "read") /\ ~call[t].failed /\ call[t].qin = << >>)
              => /\ call[t].ret = 0
                 /\ call[t].out = << >>
                 /\ call[t].put = << >>
                 /\ call[t].dropped = 0
                 /\ queue = << >>
        /\ ( /\ Returned(t, "read")
             /\ ~call[t].failed
             /\ prev[t].kind = "write"
             /\ prev[t].buf = << >> )
              => call[t].ret = 0

\* a read with a count above 0 came after the write of the empty input
C6_Witness ==
    \E t \in Procs :
        /\ Returned(t, "read")
        /\ ~call[t].failed
        /\ call[t].count > 0
        /\ prev[t].kind = "write"
        /\ prev[t].buf = << >>
        /\ prev[t].ret = 0
        /\ call[t].ret = 0

\* q with some of its oldest entries taken away
IsSuffix(s, q) ==
    Len(s) <= Len(q) /\ s = SubSeq(q, Len(q) - Len(s) + 1, Len(q))

(***************************************************************************)
(* C7: the fifo never holds more than its capacity; a step taken while it  *)
(* is full adds nothing to it (a put of a writer or the newline of a read  *)
(* is refused, a read only takes entries away); the refusal is not         *)
(* reported: the write, if it can read its buffer and meets no interrupted *)
(* lock, still returns the full length of its input, and the read its byte *)
(* count.                                                                  *)
(***************************************************************************)
C7_FullFifoRefusesSilently ==
    /\ [](Len(queue) <= QUEUE_SIZE)
    /\ [](\A t \in Procs :
             /\ (Returned(t, "write") /\ ~call[t].failed /\ Readable(call[t]))
                   => call[t].ret = call[t].count
             /\ (Returned(t, "read") /\ ~call[t].failed /\ ~call[t].fault)
                   => call[t].ret = Len(call[t].out))
    /\ [][Len(queue) = QUEUE_SIZE => IsSuffix(queue', queue)]_vars

\* a write returned its full length although the full fifo had refused some
\* of its symbols
C7_Witness ==
    \E t \in Procs :
        /\ Returned(t, "write")
        /\ ~call[t].failed
        /\ call[t].dropped > 0
        /\ call[t].ret = call[t].count
        /\ call[t].count > 0
        /\ Len(queue) = QUEUE_SIZE

\* the pcs at which a thread waits for the mutex, holds it, sleeps
LockPcs == { "word_lock", "sep_lock", "flush_lock", "r_lock" }
HoldPcs == { "word_put", "sep_put", "flush_put", "r_drain" }
SleepPcs == { "word_sleep", "sep_sleep", "f_sleep" }

\* the observable effects of the call of thread t
Effects(t) == << call[t].put, call[t].dropped, call[t].pulses, call[t].waited >>

(***************************************************************************)
(* C8: when an interruptible lock acquisition fails, the step that fails   *)
(* changes neither the fifo nor the mutex; from then on the call does not  *)
(* hold the mutex, makes no further attempt, puts nothing, sends no pulse  *)
(* command and does not sleep; and it returns the fault.                   *)
(***************************************************************************)
C8_InterruptedLockFailsFast ==
    /\ [](\A t \in Procs :
             call[t].failed
                => /\ queue_mutex # t
                   /\ pc[t] \notin (LockPcs \cup HoldPcs \cup SleepPcs)
                   /\ (pc[t] = "idle" => call[t].ret = -EFAULT))
    /\ [][\A t \in Procs :
             /\ (~call[t].failed /\ call'[t].failed)
                   => (queue' = queue /\ queue_mutex' = queue_mutex /\ led' = led)
             /\ (call[t].failed /\ call'[t].failed)
                   => (Effects(t)' = Effects(t))]_vars

\* the flush of the first dot was interrupted after the LED had been
\* switched on, and the write has returned the fault
C8_Witness ==
    \E t \in Procs :
        /\ Returned(t, "write")
        /\ call[t].failed
        /\ call[t].ret = -EFAULT
        /\ call[t].pulses = 1
        /\ call[t].waited = 1
        /\ call[t].put = << >>

(***************************************************************************)
(* C9 as claimed: after a write that failed on an interrupted lock the     *)
(* fifo holds what it held when the write began.                           *)
(***************************************************************************)
C9_FailedWriteLeavesFifoAsFound ==
    \A t \in Procs :
        (Returned(t, "write") /\ call[t].failed) => queue = call[t].q0

(***************************************************************************)
(* C9 as amended: a write that failed on an interrupted lock has put       *)
(* nothing from the interrupted attempt on, but what it put before stays:  *)
(* with no other caller active the fifo holds what it held when the write  *)
(* began followed by a proper prefix (empty only when the first attempt    *)
(* was the interrupted one) of the symbols the uninterrupted write puts.   *)
(***************************************************************************)
C9_FailedWriteLeavesPrefix ==
    \A t \in Procs :
        (Returned(t, "write") /\ call[t].failed)
            => /\ queue = call[t].q0 \o call[t].put
               /\ ProperPrefix(call[t].put, write_symbols(call[t].buf))
               /\ call[t].dropped = 0

\* "hi there" failed at the separator of its second word
C9_Witness ==
    \E t \in Procs :
        /\ Returned(t, "write")
        /\ call[t].failed
        /\ call[t].buf = HiThere
        /\ Len(queue) = 9

(***************************************************************************)
(* C10: the mutex is held by exactly the thread, if any, that stands       *)
(* between a successful queue_lock and its queue_unlock, hence by at most  *)
(* one; the fifo changes only in a step of the holder; a thread that       *)
(* sleeps, waits for the mutex or has returned does not hold it.           *)
(***************************************************************************)
C10_MutexHeldOnlyAroundFifoAccess ==
    /\ [](\A t \in Procs : (pc[t] \in HoldPcs) <=> (queue_mutex = t))
    /\ [](Cardinality({ t \in Procs : pc[t] \in HoldPcs }) <= 1)
    /\ [](\A t \in Procs :
             pc[t] \in (SleepPcs \cup LockPcs \cup { "idle" }) => queue_mutex # t)
    /\ [][queue' # queue
             => \E t \in Procs :
                   queue_mutex = t /\ pc[t] \in HoldPcs /\ pc'[t] # pc[t]]_vars

\* one thread is about to put its symbol while the other waits for the mutex
C10_Witness ==
    \E t, u \in Procs :
        /\ t # u
        /\ pc[t] = "flush_put"
        /\ queue_mutex = t
        /\ pc[u] \in LockPcs

(***************************************************************************)
(* Reference data of the timing properties: the text an input stands for   *)
(* and the dark gaps of its pulse train                                    *)
(***************************************************************************)
\* the lower-case form of a letter
Lower(c) == IF 65 <= c /\ c <= 90 THEN c + 32 ELSE c

\* the bytes that are letters or spaces, in order
LettersAndSpaces(buf) ==
    SelectSeq(buf, LAMBDA c : c \in Letters \/ c = SEPARATOR_SYMBOL)

\* s without its leading and trailing spaces, every run of spaces made one
\* space, every letter in lower case
RECURSIVE SqueezeFrom(_, _)
SqueezeFrom(s, i) ==
    IF i > Len(s) THEN << >>
    ELSE LET keep == \/ s[i] # SEPARATOR_SYMBOL
                     \/ /\ i > 1
                        /\ s[i - 1] # SEPARATOR_SYMBOL
                        /\ \E j \in (i + 1) .. Len(s) : s[j] # SEPARATOR_SYMBOL
         IN  (IF keep THEN << Lower(s[i]) >> ELSE << >>) \o SqueezeFrom(s, i + 1)

Normalize(buf) == SqueezeFrom(LettersAndSpaces(buf), 1)

\* the lengths, in dot-times, of the dark stretches of a pulse train that
\* lie between two lit dot-times
RECURSIVE GapsFrom(_, _, _, _)
GapsFrom(w, i, dark, lit) ==
    IF i > Len(w) THEN << >>
    ELSE IF w[i] # LED_OFF
    THEN (IF lit /\ dark > 0 THEN << dark >> ELSE << >>) \o GapsFrom(w, i + 1, 0, TRUE)
    ELSE GapsFrom(w, i + 1, dark + 1, lit)

Gaps(w) == GapsFrom(w, 1, 0, FALSE)

\* the gaps of a normalized text: one dot-time between the symbols of a
\* letter, three between the letters of a word, seven between words
RECURSIVE ExpectedGapsFrom(_, _)
ExpectedGapsFrom(text, i) ==
    IF i > Len(text) THEN << >>
    ELSE IF text[i] = SEPARATOR_SYMBOL THEN ExpectedGapsFrom(text, i + 1)
    ELSE (IF i = 1 THEN << >>
          ELSE IF text[i - 1] = SEPARATOR_SYMBOL THEN << INTER_WORD_DOTTIMES >>
          ELSE << INTER_LETTER_DOTTIMES >>)
            \o [ k \in 1 .. (Len(Canonical(text[i])) - 1) |-> 1 ]
            \o ExpectedGapsFrom(text, i + 1)

ExpectedGaps(text) == ExpectedGapsFrom(text, 1)

(***************************************************************************)
(* C11: with a single writer the LED shows, whenever the writer sleeps,    *)
(* the brightness the writer last sent, and in a write that met no         *)
(* interrupted lock the LED is dark for exactly three dot-times between    *)
(* the last lit dot-time of a letter and the first of the next letter of   *)
(* the same word, and for exactly seven between two words, whatever the    *)
(* number of spaces or invalid bytes that stand between them: the gaps of  *)
(* a write that read its whole buffer are those of the text its input      *)
(* stands for, the gaps of a write that an unreadable byte stopped are the *)
(* first of them.                                                          *)
(***************************************************************************)
C11_GapsAreThreeAndSeven ==
    \A t \in Procs :
        /\ (call[t].kind = "write" /\ pc[t] \in SleepPcs) => led = call[t].level
        /\ (Returned(t, "write") /\ ~call[t].failed /\ Readable(call[t]))
              => Gaps(call[t].wave) = ExpectedGaps(Normalize(call[t].buf))
        /\ (Returned(t, "write") /\ ~call[t].failed /\ ~Readable(call[t]))
              => Prefix(Gaps(call[t].wave), ExpectedGaps(Normalize(call[t].buf)))

\* "hi there": three dot-times after "h", seven after "i", three after each
\* of "t", "h", "e", "r"
C11_Witness ==
    \E t \in Procs :
        /\ Returned(t, "write")
        /\ ~call[t].failed
        /\ Readable(call[t])
        /\ call[t].buf = HiThere
        /\ Gaps(call[t].wave) =
              << 1, 1, 1, INTER_LETTER_DOTTIMES, 1, INTER_WORD_DOTTIMES,
                 INTER_LETTER_DOTTIMES, 1, 1, 1, INTER_LETTER_DOTTIMES,
                 INTER_LETTER_DOTTIMES, 1, 1, INTER_LETTER_DOTTIMES >>

(***************************************************************************)
(* Every entry that has ever been in the fifo, oldest first, each with the *)
(* thread that put it: what the reads have taken out, then what is queued  *)
(***************************************************************************)
Stream == drained \o [ i \in 1 .. Len(queue) |-> << queue[i], owners[i] >> ]

\* the symbols of the stream that thread t put, in the order of the stream
RECURSIVE SymbolsOfFrom(_, _, _)
SymbolsOfFrom(s, i, t) ==
    IF i > Len(s) THEN << >>
    ELSE (IF s[i][2] = t THEN << s[i][1] >> ELSE << >>) \o SymbolsOfFrom(s, i + 1, t)

SymbolsOf(t) == SymbolsOfFrom(Stream, 1, t)

\* the one write call of thread t, if it has made one
WriteOf(t) == IF call[t].kind = "write" THEN call[t] ELSE prev[t]

(***************************************************************************)
(* C12: under every interleaving of the writers and readers, the symbols   *)
(* that a write call none of whose symbols a full fifo refused has put so  *)
(* far stand, in the order in which the call put them, in what the reads   *)
(* have taken out followed by what is queued; the owners recorded beside   *)
(* the fifo match it entry for entry.                                      *)
(***************************************************************************)
C12_WriterOrderIsKept ==
    /\ Len(owners) = Len(queue)
    /\ \A t \in Procs :
          (WriteOf(t).kind = "write" /\ WriteOf(t).dropped = 0)
              => SymbolsOf(t) = WriteOf(t).put

\* "e t" went through the fifo: a first read took the dot, a second the three
\* separators, each with its newline, the dash is queued
C12_Witness ==
    \E t, u \in Procs :
        /\ t # u
        /\ call[t].kind = "write"
        /\ call[t].dropped = 0
        /\ call[t].put = << DOT_SYMBOL, SEPARATOR_SYMBOL, SEPARATOR_SYMBOL,
                            SEPARATOR_SYMBOL, DASH_SYMBOL >>
        /\ Returned(u, "read")
        /\ prev[u].kind = "read"
        /\ prev[u].out = << DOT_SYMBOL, NEWLINE >>
        /\ call[u].out = << SEPARATOR_SYMBOL, SEPARATOR_SYMBOL, SEPARATOR_SYMBOL,
                            NEWLINE >>
        /\ queue = << DASH_SYMBOL >>

\* no byte of buf is a letter
Letterless(buf) == \A i \in 1 .. Len(buf) : buf[i] \notin Letters

(***************************************************************************)
(* C13 as claimed: a write that met no interrupted lock returns the length *)
(* of its input, for every input.                                          *)
(***************************************************************************)
C13_WriteAlwaysReturnsCount ==
    \A t \in Procs :
        (Returned(t, "write") /\ ~call[t].failed)
            => call[t].ret = Len(call[t].buf)

(***************************************************************************)
(* C13 as amended: a write that met no interrupted lock returns the length *)
(* of its input, whatever bytes of it were passed over, if every byte of   *)
(* its buffer could be read, and -EFAULT if one of them could not; a write *)
(* whose input holds no letter puts nothing into the fifo, sends nothing   *)
(* to the LED, waits no dot-time and attempts no lock.                     *)
(***************************************************************************)
C13_WriteReturnsCount ==
    \A t \in Procs :
        /\ (Returned(t, "write") /\ ~call[t].failed /\ Readable(call[t]))
              => call[t].ret = Len(call[t].buf)
        /\ (Returned(t, "write") /\ ~call[t].failed /\ ~Readable(call[t]))
              => call[t].ret = -EFAULT
        /\ (call[t].kind = "write" /\ Letterless(call[t].buf))
              => /\ Effects(t) = << << >>, 0, 0, 0 >>
                 /\ call[t].wave = << >>
                 /\ ~call[t].failed
                 /\ queue = call[t].q0
                 /\ pc[t] \in { "w_trim", "w_loop", "idle" }

\* the write of "1 " has returned 2 and has left no trace
C13_Witness ==
    \E t \in Procs :
        /\ Returned(t, "write")
        /\ call[t].buf = << 49, 32 >>
        /\ call[t].ret = 2
        /\ Readable(call[t])
        /\ Effects(t) = << << >>, 0, 0, 0 >>

\* thread t has returned from its second write in a row, and neither write
\* met an unreadable byte or an interrupted lock
TwoWrites(t) ==
    /\ Returned(t, "write")
    /\ prev[t].kind = "write"
    /\ Readable(call[t])
    /\ Readable(prev[t])
    /\ ~call[t].failed
    /\ ~prev[t].failed

(***************************************************************************)
(* C14: two writes whose inputs have the same normal form (the bytes that  *)
(* are neither letters nor spaces deleted, every run of spaces made one    *)
(* space, leading and trailing spaces removed, letters in one case) put    *)
(* the same symbols into the fifo, send the same number of brightness      *)
(* commands and drive the same pulse train, dot-time by dot-time.          *)
(***************************************************************************)
C14_OnlyTheNormalFormMatters ==
    \A t \in Procs :
        (TwoWrites(t) /\ Normalize(prev[t].buf) = Normalize(call[t].buf))
            => /\ call[t].put = prev[t].put
               /\ call[t].wave = prev[t].wave
               /\ call[t].pulses = prev[t].pulses
               /\ call[t].waited = prev[t].waited

\* " a  !b " has been written after "a b"
C14_Witness ==
    \E t \in Procs :
        /\ TwoWrites(t)
        /\ prev[t].buf = << 97, 32, 98 >>
        /\ call[t].buf = << 32, 97, 32, 32, 33, 98, 32 >>
        /\ call[t].put = << DOT_SYMBOL, DASH_SYMBOL, SEPARATOR_SYMBOL,
                            SEPARATOR_SYMBOL, SEPARATOR_SYMBOL, DASH_SYMBOL,
                            DOT_SYMBOL, DOT_SYMBOL, DOT_SYMBOL >>
        /\ call[t].put = prev[t].put

\* my_init has validated dottime
Validated == init_pc # "start"

(***************************************************************************)
(* C15: once my_init has validated it, dottime lies between MIN_DOT_TIME   *)
(* and MAX_DOT_TIME: it is the configured value if that lies in the range  *)
(* and DEFAULT_DOT_TIME otherwise, whether misc_register succeeds or not;  *)
(* no later step, of my_init, of a read, of a write or of my_exit, changes *)
(* it, and every wait lasts a whole number of dot-times of that length.    *)
(***************************************************************************)
C15_DottimeStaysValid ==
    /\ [](Validated =>
             /\ MIN_DOT_TIME <= dottime /\ dottime <= MAX_DOT_TIME
             /\ dottime = (IF MIN_DOT_TIME <= configured /\ configured <= MAX_DOT_TIME
                           THEN configured ELSE DEFAULT_DOT_TIME)
             /\ \A t \in Procs : call[t].ms = call[t].waited * dottime)
    /\ [](loaded => Validated)
    /\ [][Validated => dottime' = dottime]_vars

\* the module was loaded with dottime=2001, the write of "e1 t" has returned
\* after 12 dot-times of 200 ms
C15_Witness ==
    \E t \in Procs :
        /\ loaded
        /\ configured = MAX_DOT_TIME + 1
        /\ dottime = DEFAULT_DOT_TIME
        /\ Returned(t, "write")
        /\ call[t].ret = Len(call[t].buf)
        /\ call[t].ms = 12 * DEFAULT_DOT_TIME

\* bit i of the pattern p, counted from 1 at the leftmost place
Bit(p, i) == (p \div (2 ^ (ShortWidth - i))) % 2

\* the place of the last set bit of p, 0 if p has none
LastSetBit(p) ==
    IF p = 0 THEN 0
    ELSE CHOOSE k \in 1 .. ShortWidth :
            /\ Bit(p, k) = 1
            /\ \A j \in (k + 1) .. ShortWidth : Bit(p, j) = 0

(***************************************************************************)
(* C16: flash_morsecode, entered with any pattern p and meeting no         *)
(* interrupted lock, returns 0 after exactly k + 1 waits of one dot-time,  *)
(* k the place of the last set bit of p counted from the left (0 for       *)
(* p = 0), hence after at most 17: during wait i <= k the LED is lit       *)
(* exactly if bit i of p is set, during the last wait it is dark.  For     *)
(* p = 0 it lights nothing and puts nothing into the fifo.                 *)
(***************************************************************************)
C16_FlashWaitsOncePerBit ==
    \A t \in Procs :
        (Returned(t, "flash") /\ ~call[t].failed)
            => LET p == call[t].pattern
                   k == LastSetBit(p)
               IN  /\ call[t].ret = 0
                   /\ call[t].waited = k + 1
                   /\ call[t].waited <= ShortWidth + 1
                   /\ call[t].wave =
                         [ i \in 1 .. (k + 1) |->
                             IF i <= k /\ Bit(p, i) = 1 THEN LED_FULL ELSE LED_OFF ]
                   /\ p = 0 => /\ call[t].put = << >>
                               /\ call[t].pulses = 1
                               /\ queue = call[t].q0

\* the pattern 1 has been flashed: fifteen dark dot-times, one lit, one dark
C16_Witness ==
    \E t \in Procs :
        /\ Returned(t, "flash")
        /\ ~call[t].failed
        /\ call[t].pattern = 1
        /\ call[t].waited = ShortWidth + 1
        /\ call[t].wave[ShortWidth] = LED_FULL
        /\ call[t].put = << DOT_SYMBOL >>

\* where a write stands between two letters: at the separators and their waits
BetweenLetters ==
    { "sep_lock", "sep_put", "sep_sleep", "word_lock", "word_put", "word_sleep" }

\* the write of thread t has just come back from process_morsecode with
\* success, or stands between two letters: the LED is dark, by the write's own
\* last command
DarkAfterLetter(t) ==
    (call[t].kind = "write"
        /\ \/ pc[t] = "w_ret" /\ rc[t] = 0
           \/ pc[t] \in BetweenLetters)
        => led = LED_OFF /\ call[t].level = LED_OFF

\* the lock of a flush was interrupted in the write of thread t: the write's
\* last command was LED_FULL and the LED is lit, also once the write has
\* returned
LitAfterAbort(t) ==
    (call[t].kind = "write" /\ call[t].intr = "flush_lock")
        => led = LED_FULL /\ call[t].level = LED_FULL

\* the same where the trigger is registered; where it is not, the write's
\* last command was LED_FULL all the same and the LED is dark
LitAfterAbortIfRegistered(t) ==
    (call[t].kind = "write" /\ call[t].intr = "flush_lock")
        => /\ call[t].level = LED_FULL
           /\ led = IF trigger = "registered" THEN LED_FULL ELSE LED_OFF

(***************************************************************************)
(* C17 as claimed: with a single writer the LED is dark whenever           *)
(* flash_morsecode has returned success, between letters, and after every  *)
(* write that has returned success; it is lit once the lock of a flush     *)
(* was interrupted.                                                        *)
(***************************************************************************)
C17_DarkAfterEverySuccessfulWrite ==
    \A t \in Procs :
        /\ DarkAfterLetter(t)
        /\ LitAfterAbort(t)
        /\ (Returned(t, "write") /\ ~call[t].failed) => led = LED_OFF

(***************************************************************************)
(* C17 as amended: with a single writer the LED is dark whenever           *)
(* flash_morsecode has returned success, between letters, and after every  *)
(* write that has returned success and has flashed at least one letter;    *)
(* once the lock of a flush was interrupted, the last command was LED_FULL *)
(* and the LED is lit, if the trigger was registered when the module was   *)
(* loaded; if it was not, the LED is dark throughout.                      *)
(***************************************************************************)
C17_DarkAfterSuccessfulFlash ==
    \A t \in Procs :
        /\ DarkAfterLetter(t)
        /\ LitAfterAbortIfRegistered(t)
        /\ trigger = "none" => led = LED_OFF
        /\ (Returned(t, "write") /\ ~call[t].failed /\ call[t].wave # << >>)
              => led = LED_OFF

\* the write of "ab" was interrupted at the flush of the dash of "a": it has
\* returned with the dot in the fifo and the LED lit
C17_Witness ==
    \E t \in Procs :
        /\ Returned(t, "write")
        /\ call[t].intr = "flush_lock"
        /\ call[t].buf = << 97, 98 >>
        /\ call[t].put = << DOT_SYMBOL >>
        /\ trigger = "registered"
        /\ led = LED_FULL

\* thread t is inside my_write
Writing(t) == call[t].kind = "write" /\ pc[t] # "idle"

\* a step of thread t inside my_write that attempts no lock
WriterStep(t) ==
    \/ WriteTrim(t)
    \/ WriteReturn(t)
    \/ WriteCopyFault(t)
    \/ WriteSkip(t)
    \/ WriteProcess(t)
    \/ WriteAfterProcess(t)
    \/ WordPut(t)
    \/ WordSleep(t)
    \/ SepPut(t)
    \/ SepSleep(t)
    \/ FlashOn(t)
    \/ FlashFlush(t)
    \/ FlushPut(t)
    \/ FlashAfterFlush(t)
    \/ FlashSleep(t)

\* the step of thread t inside my_write that takes the mutex
WriterLock(t) == WordLock(t) \/ SepLock(t) \/ FlushLock(t)

(***************************************************************************)
(* C18: nothing keeps a thread out of my_write, or holds it up anywhere    *)
(* but at a queue_lock while another thread stands between its queue_lock  *)
(* and its queue_unlock, whatever another writer is doing; and each writer *)
(* enqueues the runs it has counted itself, whatever the LED has shown     *)
(* meanwhile.  Hence the states of the witness: a symbol of one writer     *)
(* lies in the fifo between two symbols of one letter of the other, and    *)
(* the LED is dark in the middle of a dash of a writer.                    *)
(***************************************************************************)
C18_WritersAreNotExcluded ==
    \A t \in Procs :
        /\ (loaded /\ pc[t] = "idle" /\ budget[t].w > 0 /\ budget[t].n > 0)
              => ENABLED WriteCall(t)
        /\ (Writing(t) /\ pc[t] \notin LockPcs) => ENABLED WriterStep(t)
        /\ (Writing(t) /\ pc[t] \in LockPcs /\ \A u \in Procs : pc[u] \notin HoldPcs)
              => ENABLED WriterLock(t)
        /\ (Returned(t, "write") /\ Readable(call[t]) /\ ~call[t].failed
                /\ call[t].dropped = 0)
              => call[t].put = write_symbols(call[t].buf)

\* both threads write "a": the dot of u lies between the dot and the dash of
\* t, and u, two dot-times into its own dash, finds the LED switched off by t
C18_Witness ==
    \E t, u \in Procs :
        /\ t # u
        /\ call[t].buf = << 97 >>
        /\ call[u].buf = << 97 >>
        /\ queue = << DOT_SYMBOL, DOT_SYMBOL, DASH_SYMBOL >>
        /\ owners = << t, u, t >>
        /\ pc[u] = "f_sleep"
        /\ consecutive_ones_seen[u] = 2
        /\ call[u].level = LED_FULL
        /\ led = LED_OFF

\* s is empty or neither begins nor ends with a separator
NoOuterSeparator(s) ==
    s # << >> => (s[1] # SEPARATOR_SYMBOL /\ s[Len(s)] # SEPARATOR_SYMBOL)

(***************************************************************************)
(* C19, for the calls that succeed: the symbols that a write call has put  *)
(* when it returns the length of its input, none of them refused by a full *)
(* fifo, neither begin nor end with a separator.  (The claim says it of    *)
(* every write call.)                                                      *)
(***************************************************************************)
C19_NoOuterSeparatorOnSuccess ==
    \A t \in Procs :
        (Returned(t, "write") /\ call[t].ret = call[t].count /\ call[t].dropped = 0)
            => NoOuterSeparator(call[t].put)

(***************************************************************************)
(* C20 as claimed: every read that asks for at least one byte, takes the   *)
(* mutex, finds the fifo not empty and writes to a good destination leaves *)
(* the fifo shorter than it found it (so that repeated reads empty it).    *)
(***************************************************************************)
C20_ReadShortensFifo ==
    \A t \in Procs :
        (GoodRead(t) /\ ~call[t].fault /\ call[t].count >= 1 /\ call[t].qin # << >>)
            => Len(queue) < Len(call[t].qin)

====
